---- MODULE Spec2Model ----
(***************************************************************************)
(* State-machine model of subbers: the game phase state machine            *)
(* (src/game), player accounting (src/player), the in-memory repository    *)
(* (src/repo/in_memory.rs) and the orchestration Service (src/svc.rs).     *)
(*                                                                         *)
(* Timestamps are natural numbers.  An Option<T> is a sequence of length   *)
(* at most one: <<>> is None and <<t>> is Some(t).  A HashMap is a         *)
(* function whose DOMAIN is the set of keys.  A Vec is a sequence.         *)
(***************************************************************************)
EXTENDS Integers, Sequences, FiniteSets, TLC

VARIABLES
    players,    \* InMemoryRepo.players : HashMap<u32, Player>
    games,      \* InMemoryRepo.games   : HashMap<u32, Game>
    now,        \* the latest reading of the wall clock (Utc::now())
    calls,      \* the number of Service calls made so far
    tally,      \* what the accounting test's sub_on / sub_off calls add up to
    threads     \* the requests in flight: where each handler is in its method

vars == <<players, games, now, calls, tally, threads>>

(***************************************************************************)
(* Bounds of the model.                                                    *)
(***************************************************************************)
MaxTime  == 1   \* clock readings are 0..MaxTime
MaxCalls == 5   \* the Service is called at most this many times
MaxSeq   == 4   \* event sequences of up to this length are tried
MaxSubs  == 5   \* the accounting test makes at most this many calls
MaxTicks == 3   \* and reads the clock in 0..MaxTicks
MaxFold  == 2   \* calls made on the game under way with a roster of three

Times   == 0..MaxTime
Names   == {"a"}
Numbers == {0, 1}

(***************************************************************************)
(* Option<T>                                                               *)
(***************************************************************************)
None == <<>>

Some(x) == <<x>>

is_some(o) == Len(o) > 0

(***************************************************************************)
(* Player accounting, src/player/core.rs                                   *)
(***************************************************************************)
Player_new(id, number, name) ==
    [id |-> id, name |-> name, number |-> number,
     play_count |-> 0, play_start_time |-> None, play_duration |-> 0]

is_playing(p) == is_some(p.play_start_time)

\* sub_on that counts a player who is already on court once more.
sub_on_recounts(p, t) ==
    IF is_playing(p) THEN [p EXCEPT !.play_count = @ + 1]
    ELSE [p EXCEPT !.play_count = @ + 1, !.play_start_time = Some(t)]

\* sub_on without the guard for a player who is already on court.
sub_on_unguarded(p, t) ==
    [p EXCEPT !.play_count = @ + 1, !.play_start_time = Some(t)]

\* sub_on reads the clock once, only when the player is off court.
sub_on(p, t) ==
    IF is_playing(p) THEN p
    ELSE [p EXCEPT !.play_count = @ + 1, !.play_start_time = Some(t)]

\* sub_off that records the time of the last interval instead of adding it.
sub_off_overwrites(p, t) ==
    IF ~is_playing(p) THEN p
    ELSE [p EXCEPT !.play_duration = t - p.play_start_time[1],
                   !.play_start_time = None]

\* sub_off that adds the time played but leaves the player on court.
sub_off_stays_on(p, t) ==
    IF ~is_playing(p) THEN p
    ELSE [p EXCEPT !.play_duration = @ + (t - p.play_start_time[1])]

\* sub_off reads the clock once, only when the player is on court.
sub_off(p, t) ==
    IF ~is_playing(p) THEN p
    ELSE [p EXCEPT !.play_duration = @ + (t - p.play_start_time[1]),
                   !.play_start_time = None]

add_stats(p, play_count, play_duration) ==
    [p EXCEPT !.play_count = @ + play_count,
              !.play_duration = @ + play_duration]

\* reset_stats that carries the play_count over into the copy.
reset_stats_keeps_count(p) ==
    [id |-> p.id, name |-> p.name, number |-> p.number,
     play_count |-> p.play_count, play_duration |-> 0, play_start_time |-> None]

reset_stats(p) ==
    [id |-> p.id, name |-> p.name, number |-> p.number,
     play_count |-> 0, play_duration |-> 0, play_start_time |-> None]

(***************************************************************************)
(* Period and Data, src/game/data.rs                                       *)
(***************************************************************************)
Period_new(start_time) == [start_time |-> start_time, end_time |-> None]

finish(period, end_time) == [period EXCEPT !.end_time = Some(end_time)]

\* The idiom of end_period / end_game: pop the last period, finish it and
\* push it back; nothing happens when there is no period.
close_last(shared, end_time) ==
    IF Len(shared.periods) = 0 THEN shared
    ELSE [shared EXCEPT
            !.periods = Append(SubSeq(shared.periods, 1, Len(shared.periods) - 1),
                               finish(shared.periods[Len(shared.periods)], end_time))]

(***************************************************************************)
(* Phase state machine, src/game/state.rs.  Every transition takes the     *)
(* phase and the shared Data and returns <<next phase, updated Data>>.     *)
(* t1, t2 are the successive readings of Utc::now() the transition makes.  *)
(***************************************************************************)
NotStartedState == [kind |-> "NotStarted"]

InProgressState(start_time) == [kind |-> "InProgress", start_time |-> start_time]

PausedState(start_time) == [kind |-> "Paused", start_time |-> start_time]

FinishedState(start_time, end_time) ==
    [kind |-> "Finished", start_time |-> start_time, end_time |-> end_time]

\* start_game that opens no period.
NotStarted_start_game_no_period(phase, shared, t1) ==
    <<InProgressState(t1), shared>>

\* start_game with the clock reading of the phase one tick after that of the
\* period.
NotStarted_start_game_late(phase, shared, t1) ==
    <<InProgressState(t1 + 1),
      [shared EXCEPT !.periods = Append(@, Period_new(t1))]>>

NotStarted_start_game(phase, shared, t1) ==
    <<InProgressState(t1),
      [shared EXCEPT !.periods = Append(@, Period_new(t1))]>>

\* InProgress_end_period that leaves the open period as it is.
InProgress_end_period_no_close(phase, shared, t1) ==
    <<PausedState(phase.start_time), shared>>

InProgress_end_period(phase, shared, t1) ==
    <<PausedState(phase.start_time), close_last(shared, t1)>>

\* InProgress_end_game that leaves the open period as it is.
InProgress_end_game_no_close(phase, shared, t1, t2) ==
    <<FinishedState(phase.start_time, t2), shared>>

InProgress_end_game(phase, shared, t1, t2) ==
    <<FinishedState(phase.start_time, t2), close_last(shared, t1)>>

\* Paused_start_period recording the start of the new period as the start of
\* the phase.
Paused_start_period_restamps(phase, shared, t1) ==
    <<InProgressState(t1),
      [shared EXCEPT !.periods = Append(@, Period_new(t1))]>>

Paused_start_period(phase, shared, t1) ==
    <<InProgressState(phase.start_time),
      [shared EXCEPT !.periods = Append(@, Period_new(t1))]>>

Paused_end_game(phase, shared, t1, t2) ==
    <<FinishedState(phase.start_time, t2), close_last(shared, t1)>>

(***************************************************************************)
(* Event dispatcher, src/game/event.rs.  The result is                     *)
(* [ok |-> TRUE, val |-> <<State, Data>>] or [ok |-> FALSE, err |-> e].    *)
(***************************************************************************)
Events == {"StartGame", "EndGame", "StartPeriod", "EndPeriod"}

Ok(v) == [ok |-> TRUE, val |-> v]

Err(e) == [ok |-> FALSE, err |-> e]

NotStarted_on_event(phase, event, shared, t1, t2) ==
    IF event = "StartGame" THEN Ok(NotStarted_start_game(phase, shared, t1))
    ELSE Err("Invalid")

\* InProgress_on_event without the EndGame arm.
InProgress_on_event_no_end_game(phase, event, shared, t1, t2) ==
    IF event = "EndPeriod" THEN Ok(InProgress_end_period(phase, shared, t1))
    ELSE Err("Invalid")

InProgress_on_event(phase, event, shared, t1, t2) ==
    IF event = "EndPeriod" THEN Ok(InProgress_end_period(phase, shared, t1))
    ELSE IF event = "EndGame" THEN Ok(InProgress_end_game(phase, shared, t1, t2))
    ELSE Err("Invalid")

\* Paused_on_event that also takes StartGame as the start of a period.
Paused_on_event_restart(phase, event, shared, t1, t2) ==
    IF event = "StartPeriod" \/ event = "StartGame"
    THEN Ok(Paused_start_period(phase, shared, t1))
    ELSE IF event = "EndGame" THEN Ok(Paused_end_game(phase, shared, t1, t2))
    ELSE Err("Invalid")

Paused_on_event(phase, event, shared, t1, t2) ==
    IF event = "StartPeriod" THEN Ok(Paused_start_period(phase, shared, t1))
    ELSE IF event = "EndGame" THEN Ok(Paused_end_game(phase, shared, t1, t2))
    ELSE Err("Invalid")

\* Finished_on_event that lets StartGame start the game again.
Finished_on_event_restart(phase, event, shared, t1, t2) ==
    IF event = "StartGame"
    THEN Ok(<<InProgressState(t1),
              [shared EXCEPT !.periods = Append(@, Period_new(t1))]>>)
    ELSE Err("Invalid")

Finished_on_event(phase, event, shared, t1, t2) == Err("Invalid")

(***************************************************************************)
(* Game aggregate, src/game/core.rs                                        *)
(***************************************************************************)
Game_new(id, roster) ==
    [id |-> id,
     shared |-> [periods |-> <<>>, players |-> roster, mvp |-> None],
     state |-> NotStartedState]

\* on_event that rebuilds the game without its mvp.
Game_on_event_clears_mvp(game, event, t1, t2) ==
    LET r == CASE game.state.kind = "NotStarted" ->
                    NotStarted_on_event(game.state, event, game.shared, t1, t2)
               [] game.state.kind = "InProgress" ->
                    InProgress_on_event(game.state, event, game.shared, t1, t2)
               [] game.state.kind = "Paused" ->
                    Paused_on_event(game.state, event, game.shared, t1, t2)
               [] game.state.kind = "Finished" ->
                    Finished_on_event(game.state, event, game.shared, t1, t2)
    IN  IF r.ok
        THEN Ok([id |-> game.id, state |-> r.val[1],
                 shared |-> [r.val[2] EXCEPT !.mvp = None]])
        ELSE r

Game_on_event(game, event, t1, t2) ==
    LET r == CASE game.state.kind = "NotStarted" ->
                    NotStarted_on_event(game.state, event, game.shared, t1, t2)
               [] game.state.kind = "InProgress" ->
                    InProgress_on_event(game.state, event, game.shared, t1, t2)
               [] game.state.kind = "Paused" ->
                    Paused_on_event(game.state, event, game.shared, t1, t2)
               [] game.state.kind = "Finished" ->
                    Finished_on_event(game.state, event, game.shared, t1, t2)
    IN  IF r.ok
        THEN Ok([id |-> game.id, state |-> r.val[1], shared |-> r.val[2]])
        ELSE r

(***************************************************************************)
(* In-memory repository, src/repo/in_memory.rs.  Each method runs under    *)
(* the store's lock, so each is one atomic step on the store value.        *)
(***************************************************************************)
insert(store, key, value) ==
    [k \in DOMAIN store \cup {key} |-> IF k = key THEN value ELSE store[k]]

remove(store, key) == [k \in DOMAIN store \ {key} |-> store[k]]

to_lowercase(name) ==
    CASE name = "A" -> "a"
      [] name = "B" -> "b"
      [] OTHER -> name

\* The order of lowercase names that sort_by_key compares by.
name_rank(name) ==
    CASE to_lowercase(name) = "a" -> 1
      [] to_lowercase(name) = "b" -> 2

\* The orders in which a stable sort by lowercase name can leave the records
\* under the keys ks: a record of the least name comes first, then the rest.
RECURSIVE sorted_by_name(_, _)
sorted_by_name(store, ks) ==
    IF ks = {} THEN {<<>>}
    ELSE UNION {{<<store[k]>> \o rest : rest \in sorted_by_name(store, ks \ {k})} :
                  k \in {k \in ks : \A j \in ks :
                            name_rank(store[k].name) <= name_rank(store[j].name)}}

\* list_players collects store.values() in the HashMap's iteration order,
\* which is arbitrary, and sorts stably by lowercase name: every listing of
\* the records in non-decreasing name order is a possible result.
Repo_list_players(store) == sorted_by_name(store, DOMAIN store)

\* create_player that returns the new player without storing it.
Repo_create_player_unstored(store, number, name) ==
    LET id == Cardinality(DOMAIN store)
    IN  IF id \in DOMAIN store THEN Err("Conflict")
        ELSE [ok |-> TRUE, val |-> Player_new(id, number, name), store |-> store]

Repo_create_player(store, number, name) ==
    LET id == Cardinality(DOMAIN store)
    IN  IF id \in DOMAIN store THEN Err("Conflict")
        ELSE [ok |-> TRUE, val |-> Player_new(id, number, name),
              store |-> insert(store, id, Player_new(id, number, name))]

Repo_get_player(store, player_id) ==
    IF player_id \in DOMAIN store THEN Ok(store[player_id]) ELSE Err("NotFound")

\* update_player looks the record up, and stores it, under player.number.
Repo_update_player(store, player) ==
    IF player.number \notin DOMAIN store THEN Err("NotFound")
    ELSE [ok |-> TRUE, store |-> insert(store, player.number, player)]

Repo_delete_player(store, player_id) ==
    IF player_id \in DOMAIN store
    THEN [ok |-> TRUE, store |-> remove(store, player_id)]
    ELSE Err("NotFound")

Repo_count_games(store) == Cardinality(DOMAIN store)

\* create_game that stores the game whether or not its id is taken.
Repo_create_game_upsert(store, game) ==
    [ok |-> TRUE, store |-> insert(store, game.id, game)]

Repo_create_game(store, game) ==
    IF game.id \in DOMAIN store THEN Err("Conflict")
    ELSE [ok |-> TRUE, store |-> insert(store, game.id, game)]

Repo_get_game(store, game_id) ==
    IF game_id \in DOMAIN store THEN Ok(store[game_id]) ELSE Err("NotFound")

\* update_game that inserts the game when its id is not stored.
Repo_update_game_upsert(store, game) ==
    [ok |-> TRUE, store |-> insert(store, game.id, game)]

Repo_update_game(store, game) ==
    IF game.id \notin DOMAIN store THEN Err("NotFound")
    ELSE [ok |-> TRUE, store |-> insert(store, game.id, game)]

Repo_delete_game(store, game_id) ==
    IF game_id \in DOMAIN store
    THEN [ok |-> TRUE, store |-> remove(store, game_id)]
    ELSE Err("NotFound")

(***************************************************************************)
(* SQLite repository, src/repo/sqlite.rs.  The game table is a map from the *)
(* primary key id to the row; serde_json writes and reads back every field *)
(* of Data and State, so a row is modelled by the game it decodes to.      *)
(***************************************************************************)

\* From<rusqlite::Error> for Error: only QueryReturnedNoRows has a kind of
\* its own, every other failure becomes Error::Internal.
from_rusqlite(e) == IF e = "QueryReturnedNoRows" THEN "NotFound" ELSE "Internal"

\* INSERT INTO game: a row with that primary key makes the statement fail
\* with a constraint violation and leaves the table as it was.
Sqlite_create_game(table, game) ==
    IF game.id \in DOMAIN table THEN Err(from_rusqlite("ConstraintViolation"))
    ELSE [ok |-> TRUE, store |-> insert(table, game.id, game)]

(***************************************************************************)
(* Orchestration Service, src/svc.rs.  A Service method is an operator on  *)
(* the two stores; its result holds what the method returned (res, val),   *)
(* the stores it left behind and the latest clock reading it made.         *)
(***************************************************************************)
Ret(res, val, g, p, n) ==
    [res |-> res, val |-> val, games |-> g, players |-> p, now |-> n]

\* map_err that reports a rejected event as a conflict.
map_event_err_conflict(e) ==
    CASE e = "NoOp" -> "InvalidInput"
      [] e = "Invalid" -> "Conflict"

\* map_err of the four event methods: both EventError kinds become
\* Error::InvalidInput.
map_event_err(e) ==
    CASE e = "NoOp" -> "InvalidInput"
      [] e = "Invalid" -> "InvalidInput"

\* The loop left out: the roster stays as the transition found it.
sub_off_none(roster, ts) == roster

\* `for p in game.shared.players.iter_mut() { p.sub_off(); }`, the i-th
\* player being subbed off at clock reading ts[i].
sub_off_all(roster, ts) == [i \in DOMAIN roster |-> sub_off(roster[i], ts[i])]

\* The clock readings such a loop can make from roster position i on, after
\* the reading `prev`: they never go backwards, and a player who is off court
\* causes no reading (the entry repeats the reading before it).
RECURSIVE loop_reads(_, _, _)
loop_reads(roster, i, prev) ==
    IF i > Len(roster) THEN {<<>>}
    ELSE IF is_playing(roster[i])
    THEN UNION {{<<t>> \o rest : rest \in loop_reads(roster, i + 1, t)} :
                  t \in {t \in Times : t >= prev}}
    ELSE {<<prev>> \o rest : rest \in loop_reads(roster, i + 1, prev)}

LoopReads(roster, prev) == loop_reads(roster, 1, prev)

last_read(ts, prev) == IF Len(ts) = 0 THEN prev ELSE ts[Len(ts)]

\* The stat-folding loop of end_game from roster position i on: a player
\* whose record cannot be read is skipped, a failed update_player is returned.
RECURSIVE fold_stats(_, _, _)
fold_stats(store, roster, i) ==
    IF i > Len(roster) THEN [ok |-> TRUE, store |-> store]
    ELSE LET got == Repo_get_player(store, roster[i].id)
         IN  IF ~got.ok THEN fold_stats(store, roster, i + 1)
             ELSE LET ep == add_stats(got.val, roster[i].play_count,
                                      roster[i].play_duration)
                      upd == Repo_update_player(store, ep)
                  IN  IF ~upd.ok THEN [ok |-> FALSE, err |-> upd.err, store |-> store]
                      ELSE fold_stats(upd.store, roster, i + 1)

\* impl IntoResponse for Error: the HTTP status of an error.
into_response(err) ==
    CASE err = "InvalidInput" -> 400
      [] err = "NotFound"     -> 404
      [] err = "Conflict"     -> 409
      [] err = "Internal"     -> 500

Service_get_player(player_id) ==
    LET got == Repo_get_player(players, player_id)
    IN  IF ~got.ok THEN Ret(got.err, None, games, players, now)
        ELSE Ret("Ok", Some(got.val), games, players, now)

Service_get_game(game_id) ==
    LET got == Repo_get_game(games, game_id)
    IN  IF ~got.ok THEN Ret(got.err, None, games, players, now)
        ELSE Ret("Ok", Some(got.val), games, players, now)

\* The status of the response of the handlers get_player and get_game.
status(r) == IF r.res = "Ok" THEN 200 ELSE into_response(r.res)

Service_create_player(number, name) ==
    LET r == Repo_create_player(players, number, name)
    IN  IF ~r.ok THEN Ret(r.err, None, games, players, now)
        ELSE Ret("Ok", Some(r.val), games, r.store, now)

Service_update_player(player) ==
    LET r == Repo_update_player(players, player)
    IN  IF ~r.ok THEN Ret(r.err, None, games, players, now)
        ELSE Ret("Ok", Some(player), games, r.store, now)

\* delete_player that also takes the player out of the roster of every game.
Service_delete_player_cascading(player_id) ==
    LET r == Repo_delete_player(players, player_id)
    IN  IF ~r.ok THEN Ret(r.err, None, games, players, now)
        ELSE Ret("Ok", None,
                 [g \in DOMAIN games |->
                     [games[g] EXCEPT !.shared.players =
                         SelectSeq(@, LAMBDA p : p.id # player_id)]],
                 r.store, now)

Service_delete_player(player_id) ==
    LET r == Repo_delete_player(players, player_id)
    IN  IF ~r.ok THEN Ret(r.err, None, games, players, now)
        ELSE Ret("Ok", None, games, r.store, now)

\* listing is the result list_players returned.
Service_create_game(listing) ==
    LET next == Repo_count_games(games) + 1
        game == Game_new(next, [i \in DOMAIN listing |-> reset_stats(listing[i])])
        r    == Repo_create_game(games, game)
    IN  IF ~r.ok THEN Ret(r.err, None, games, players, now)
        ELSE Ret("Ok", Some(game), r.store, players, now)

Service_start_game(game_id, t1) ==
    LET got == Repo_get_game(games, game_id)
    IN  IF ~got.ok THEN Ret(got.err, None, games, players, now)
        ELSE LET ev == Game_on_event(got.val, "StartGame", t1, t1)
             IN  IF ~ev.ok THEN Ret(map_event_err(ev.err), None, games, players, now)
                 ELSE LET upd == Repo_update_game(games, ev.val)
                      IN  IF ~upd.ok THEN Ret(upd.err, None, games, players, t1)
                          ELSE Ret("Ok", Some(ev.val), upd.store, players, t1)

Service_start_game_period(game_id, t1) ==
    LET got == Repo_get_game(games, game_id)
    IN  IF ~got.ok THEN Ret(got.err, None, games, players, now)
        ELSE LET ev == Game_on_event(got.val, "StartPeriod", t1, t1)
             IN  IF ~ev.ok THEN Ret(map_event_err(ev.err), None, games, players, now)
                 ELSE LET upd == Repo_update_game(games, ev.val)
                      IN  IF ~upd.ok THEN Ret(upd.err, None, games, players, t1)
                          ELSE Ret("Ok", Some(ev.val), upd.store, players, t1)

\* Service_end_game_period subbing everyone off, and persisting that, before
\* it dispatches the event.
Service_end_game_period_eager(game_id, t1, ts) ==
    LET got == Repo_get_game(games, game_id)
    IN  IF ~got.ok THEN Ret(got.err, None, games, players, now)
        ELSE LET game == [got.val EXCEPT !.shared.players = sub_off_all(@, ts)]
                 upd  == Repo_update_game(games, game)
                 ev   == Game_on_event(game, "EndPeriod", t1, t1)
             IN  IF ~ev.ok
                 THEN Ret(map_event_err(ev.err), None, upd.store, players, last_read(ts, t1))
                 ELSE Ret("Ok", Some(ev.val), Repo_update_game(games, ev.val).store,
                          players, last_read(ts, t1))

\* ts[i] is the clock reading of the i-th roster player's sub_off.
Service_end_game_period(game_id, t1, ts) ==
    LET got == Repo_get_game(games, game_id)
    IN  IF ~got.ok THEN Ret(got.err, None, games, players, now)
        ELSE LET ev == Game_on_event(got.val, "EndPeriod", t1, t1)
             IN  IF ~ev.ok THEN Ret(map_event_err(ev.err), None, games, players, now)
                 ELSE LET game == [ev.val EXCEPT !.shared.players = sub_off_all(@, ts)]
                          upd  == Repo_update_game(games, game)
                          n    == last_read(ts, t1)
                      IN  IF ~upd.ok THEN Ret(upd.err, None, games, players, n)
                          ELSE Ret("Ok", Some(game), upd.store, players, n)

\* t1, t2 are the two clock readings of the EndGame transition.
Service_end_game(game_id, t1, t2, ts) ==
    LET got == Repo_get_game(games, game_id)
    IN  IF ~got.ok THEN Ret(got.err, None, games, players, now)
        ELSE LET ev == Game_on_event(got.val, "EndGame", t1, t2)
             IN  IF ~ev.ok THEN Ret(map_event_err(ev.err), None, games, players, now)
                 ELSE LET game == [ev.val EXCEPT !.shared.players = sub_off_all(@, ts)]
                          upd  == Repo_update_game(games, game)
                          n    == last_read(ts, t2)
                      IN  IF ~upd.ok THEN Ret(upd.err, None, games, players, n)
                          ELSE LET f == fold_stats(players, game.shared.players, 1)
                               IN  IF ~f.ok THEN Ret(f.err, None, upd.store, f.store, n)
                                   ELSE Ret("Ok", Some(game), upd.store, f.store, n)

\* find that falls back to the first roster entry when no entry has the id.
find_or_first(roster, player_id) ==
    IF \E i \in DOMAIN roster : roster[i].id = player_id
    THEN CHOOSE i \in DOMAIN roster :
            /\ roster[i].id = player_id
            /\ \A j \in DOMAIN roster : roster[j].id = player_id => i <= j
    ELSE IF Len(roster) > 0 THEN 1 ELSE 0

\* `players.iter().find(|p| p.id == player_id)`: the first position, or 0.
find(roster, player_id) ==
    IF \E i \in DOMAIN roster : roster[i].id = player_id
    THEN CHOOSE i \in DOMAIN roster :
            /\ roster[i].id = player_id
            /\ \A j \in DOMAIN roster : roster[j].id = player_id => i <= j
    ELSE 0

Service_sub_player_on(game_id, player_id, t1) ==
    LET got == Repo_get_game(games, game_id)
    IN  IF ~got.ok THEN Ret(got.err, None, games, players, now)
        ELSE LET i == find(got.val.shared.players, player_id)
             IN  IF i = 0 THEN Ret("NotFound", None, games, players, now)
                 ELSE LET game == [got.val EXCEPT !.shared.players[i] = sub_on(@, t1)]
                          upd  == Repo_update_game(games, game)
                          n    == IF is_playing(got.val.shared.players[i]) THEN now ELSE t1
                      IN  IF ~upd.ok THEN Ret(upd.err, None, games, players, n)
                          ELSE Ret("Ok", Some(game), upd.store, players, n)

Service_sub_player_off(game_id, player_id, t1) ==
    LET got == Repo_get_game(games, game_id)
    IN  IF ~got.ok THEN Ret(got.err, None, games, players, now)
        ELSE LET i == find(got.val.shared.players, player_id)
             IN  IF i = 0 THEN Ret("NotFound", None, games, players, now)
                 ELSE LET game == [got.val EXCEPT !.shared.players[i] = sub_off(@, t1)]
                          upd  == Repo_update_game(games, game)
                          n    == IF is_playing(got.val.shared.players[i]) THEN t1 ELSE now
                      IN  IF ~upd.ok THEN Ret(upd.err, None, games, players, n)
                          ELSE Ret("Ok", Some(game), upd.store, players, n)

\* upsert_mvp that looks the player up in the player store, not in the roster.
Service_upsert_mvp_by_store(game_id, player_id) ==
    LET got == Repo_get_game(games, game_id)
    IN  IF ~got.ok THEN Ret(got.err, None, games, players, now)
        ELSE IF ~Repo_get_player(players, player_id).ok
             THEN Ret("NotFound", None, games, players, now)
             ELSE LET game == [got.val EXCEPT !.shared.mvp = Some(player_id)]
                      upd  == Repo_update_game(games, game)
                  IN  IF ~upd.ok THEN Ret(upd.err, None, games, players, now)
                      ELSE Ret("Ok", Some(game), upd.store, players, now)

\* upsert_mvp without the check that the player is in the roster.
Service_upsert_mvp_unchecked(game_id, player_id) ==
    LET got == Repo_get_game(games, game_id)
    IN  IF ~got.ok THEN Ret(got.err, None, games, players, now)
        ELSE LET game == [got.val EXCEPT !.shared.mvp = Some(player_id)]
                 upd  == Repo_update_game(games, game)
             IN  IF ~upd.ok THEN Ret(upd.err, None, games, players, now)
                 ELSE Ret("Ok", Some(game), upd.store, players, now)

Service_upsert_mvp(game_id, player_id) ==
    LET got == Repo_get_game(games, game_id)
    IN  IF ~got.ok THEN Ret(got.err, None, games, players, now)
        ELSE IF find(got.val.shared.players, player_id) = 0
             THEN Ret("NotFound", None, games, players, now)
             ELSE LET game == [got.val EXCEPT !.shared.mvp = Some(player_id)]
                      upd  == Repo_update_game(games, game)
                  IN  IF ~upd.ok THEN Ret(upd.err, None, games, players, now)
                      ELSE Ret("Ok", Some(game), upd.store, players, now)

(***************************************************************************)
(* The state machine: one action per Service method, as the HTTP handlers  *)
(* of src/http/core.rs call them, one call at a time.                      *)
(***************************************************************************)
\* Nothing counted yet: no effective sub_on, no completed interval, nobody
\* on court.
NoTally == [ons |-> 0, done |-> 0, total |-> 0, since |-> None]

\* The handlers of the requests in flight.  Each runs one Service method;
\* between two calls of the repository another handler can run.
Threads == {1, 2}

\* A handler that has not called the Service yet.
Idle ==
    [pc |-> "idle", op |-> "none", pid |-> 0, game |-> None, i |-> 0,
     ep |-> None, res |-> "none", writes |-> 0]

NoThreads == [th \in Threads |-> Idle]

Init ==
    /\ players = <<>>
    /\ games = <<>>
    /\ now = 0
    /\ calls = 0
    /\ tally = NoTally
    /\ threads = NoThreads

\* The call returns: the stores and the clock are as the method left them.
Return(r) ==
    /\ calls' = calls + 1
    /\ players' = r.players
    /\ games' = r.games
    /\ now' = r.now
    /\ tally' = tally
    /\ threads' = threads

\* The clock readings a call can make: none is earlier than the latest one.
Reads == {t \in Times : t >= now}

\* The game ids a caller passes: those of the stored games and 0, which no
\* game has.
GameIds == DOMAIN games \cup {0}

\* The player ids a caller passes: those of the stored players, those in the
\* rosters, and MaxCalls, which no player has.
PlayerIds ==
    DOMAIN players
      \cup UNION {{games[g].shared.players[i].id :
                     i \in DOMAIN games[g].shared.players} : g \in DOMAIN games}
      \cup {MaxCalls}

create_player ==
    /\ calls < MaxCalls
    /\ \E number \in Numbers, name \in Names :
           Return(Service_create_player(number, name))

\* The edit_player handler: get_player, set name and number, update_player.
edit_player ==
    /\ calls < MaxCalls
    /\ \E player_id \in PlayerIds, number \in Numbers, name \in Names :
           LET got == Repo_get_player(players, player_id)
           IN  IF ~got.ok
               THEN Return(Ret(got.err, None, games, players, now))
               ELSE Return(Service_update_player([got.val EXCEPT !.name = name,
                                                                 !.number = number]))

delete_player ==
    /\ calls < MaxCalls
    /\ \E player_id \in PlayerIds :
           Return(Service_delete_player(player_id))

create_game ==
    /\ calls < MaxCalls
    /\ \E listing \in Repo_list_players(players) :
           Return(Service_create_game(listing))

start_game ==
    /\ calls < MaxCalls
    /\ \E game_id \in GameIds, t1 \in Reads :
           Return(Service_start_game(game_id, t1))

start_game_period ==
    /\ calls < MaxCalls
    /\ \E game_id \in GameIds, t1 \in Reads :
           Return(Service_start_game_period(game_id, t1))

end_game_period ==
    /\ calls < MaxCalls
    /\ \E game_id \in GameIds, t1 \in Reads :
           \E ts \in LoopReads(IF game_id \in DOMAIN games
                               THEN games[game_id].shared.players ELSE <<>>, t1) :
               Return(Service_end_game_period(game_id, t1, ts))

end_game ==
    /\ calls < MaxCalls
    /\ \E game_id \in GameIds, t1 \in Reads :
           \E t2 \in {t \in Times : t >= t1} :
               \E ts \in LoopReads(IF game_id \in DOMAIN games
                                   THEN games[game_id].shared.players ELSE <<>>, t2) :
                   Return(Service_end_game(game_id, t1, t2, ts))

sub_player_on ==
    /\ calls < MaxCalls
    /\ \E game_id \in GameIds, player_id \in PlayerIds, t1 \in Reads :
           Return(Service_sub_player_on(game_id, player_id, t1))

sub_player_off ==
    /\ calls < MaxCalls
    /\ \E game_id \in GameIds, player_id \in PlayerIds, t1 \in Reads :
           Return(Service_sub_player_off(game_id, player_id, t1))

upsert_mvp ==
    /\ calls < MaxCalls
    /\ \E game_id \in GameIds, player_id \in PlayerIds :
           Return(Service_upsert_mvp(game_id, player_id))

Next ==
    \/ create_player
    \/ edit_player
    \/ delete_player
    \/ create_game
    \/ start_game
    \/ start_game_period
    \/ end_game_period
    \/ end_game
    \/ sub_player_on
    \/ sub_player_off
    \/ upsert_mvp

Spec == Init /\ [][Next]_vars

(***************************************************************************)
(* The accounting test: sub_on and sub_off calls, in any order, on the one  *)
(* roster player of a new game, the clock never going backwards.  The test *)
(* keeps its own tally of the calls: a sub_on is effective when the tally   *)
(* has nobody on court, a sub_off is effective when it has somebody, and an *)
(* effective sub_off completes the interval the last effective sub_on began.*)
(***************************************************************************)
Ticks == {t \in 0..MaxTicks : t >= now}

\* One stored player, who may have stats from earlier games, and a game
\* created from that store.
PlayerInit ==
    /\ \E number \in Numbers, name \in Names, n \in 0..1 :
           players = (0 :> add_stats(Player_new(0, number, name), n, n))
    /\ games = (1 :> Game_new(1, <<reset_stats(players[0])>>))
    /\ now = 0
    /\ calls = 0
    /\ tally = NoTally
    /\ threads = NoThreads

player_sub_on ==
    /\ calls < MaxSubs
    /\ \E t \in Ticks :
           LET r == Service_sub_player_on(1, 0, t)
           IN  /\ players' = r.players
               /\ games' = r.games
               /\ now' = r.now
               /\ calls' = calls + 1
               /\ tally' = IF is_some(tally.since) THEN tally
                           ELSE [tally EXCEPT !.ons = @ + 1, !.since = Some(t)]
               /\ threads' = threads

player_sub_off ==
    /\ calls < MaxSubs
    /\ \E t \in Ticks :
           LET r == Service_sub_player_off(1, 0, t)
           IN  /\ players' = r.players
               /\ games' = r.games
               /\ now' = r.now
               /\ calls' = calls + 1
               /\ tally' = IF ~is_some(tally.since) THEN tally
                           ELSE [tally EXCEPT !.done = @ + 1,
                                              !.total = @ + (t - tally.since[1]),
                                              !.since = None]
               /\ threads' = threads

PlayerNext ==
    \/ player_sub_on
    \/ player_sub_off

PlayerSpec == PlayerInit /\ [][PlayerNext]_vars

(***************************************************************************)
(* Concurrent requests.  axum serves requests on the multi-threaded tokio   *)
(* runtime and the Service takes no lock of its own: a method is a sequence *)
(* of repository calls, each atomic under the store's RwLock, and between   *)
(* two of them another handler can run.  Two handlers work on game 1.      *)
(***************************************************************************)
Ops == {"sub_player_on", "upsert_mvp", "start_game", "end_game_period", "end_game"}

\* The store after create_player(n0, "a"), create_player(n1, "a").
two_players(n0, n1) ==
    Repo_create_player(Repo_create_player(<<>>, n0, "a").store, n1, "a").store

\* The game that create_game made from the listing, started at 0 or not, and
\* with the first roster player subbed on at 0 or not.
game_one(listing, started, on_court) ==
    LET created == Game_new(1, [i \in DOMAIN listing |-> reset_stats(listing[i])])
        begun   == IF started THEN Game_on_event(created, "StartGame", 0, 0).val
                   ELSE created
    IN  IF on_court THEN [begun EXCEPT !.shared.players[1] = sub_on(@, 0)]
        ELSE begun

\* Two stored players and one stored game, as the calls create_player,
\* create_player, create_game and then possibly start_game and sub_player_on
\* leave them, all at clock reading 0.
ConcInit ==
    /\ \E n0 \in Numbers, n1 \in Numbers : players = two_players(n0, n1)
    /\ \E listing \in Repo_list_players(players), started \in BOOLEAN,
          on_court \in BOOLEAN :
           games = (1 :> game_one(listing, started, on_court))
    /\ now = 0
    /\ calls = 0
    /\ tally = NoTally
    /\ threads = NoThreads

\* Changed without the sub-off loop of end_game_period and end_game.
Changed_phase_only(op, game, pid, t1, t2, ts) ==
    CASE op = "sub_player_on" ->
            IF find(game.shared.players, pid) = 0 THEN Err("NotFound")
            ELSE Ok([game EXCEPT
                       !.shared.players[find(game.shared.players, pid)] = sub_on(@, t1)])
      [] op = "upsert_mvp" ->
            IF find(game.shared.players, pid) = 0 THEN Err("NotFound")
            ELSE Ok([game EXCEPT !.shared.mvp = Some(pid)])
      [] op = "start_game" ->
            LET ev == Game_on_event(game, "StartGame", t1, t1)
            IN  IF ev.ok THEN ev ELSE Err(map_event_err(ev.err))
      [] op = "end_game_period" ->
            LET ev == Game_on_event(game, "EndPeriod", t2, t2)
            IN  IF ev.ok THEN ev ELSE Err(map_event_err(ev.err))
      [] op = "end_game" ->
            LET ev == Game_on_event(game, "EndGame", t1, t2)
            IN  IF ev.ok THEN ev ELSE Err(map_event_err(ev.err))

\* What a method makes of the game it loaded, before it writes anything: the
\* game to store, or the error it returns.
Changed(op, game, pid, t1, t2, ts) ==
    CASE op = "sub_player_on" ->
            IF find(game.shared.players, pid) = 0 THEN Err("NotFound")
            ELSE Ok([game EXCEPT
                       !.shared.players[find(game.shared.players, pid)] = sub_on(@, t1)])
      [] op = "upsert_mvp" ->
            IF find(game.shared.players, pid) = 0 THEN Err("NotFound")
            ELSE Ok([game EXCEPT !.shared.mvp = Some(pid)])
      [] op = "start_game" ->
            LET ev == Game_on_event(game, "StartGame", t1, t1)
            IN  IF ev.ok THEN ev ELSE Err(map_event_err(ev.err))
      [] op = "end_game_period" ->
            LET ev == Game_on_event(game, "EndPeriod", t2, t2)
            IN  IF ev.ok
                THEN Ok([ev.val EXCEPT !.shared.players = sub_off_all(@, ts)])
                ELSE Err(map_event_err(ev.err))
      [] op = "end_game" ->
            LET ev == Game_on_event(game, "EndGame", t1, t2)
            IN  IF ev.ok
                THEN Ok([ev.val EXCEPT !.shared.players = sub_off_all(@, ts)])
                ELSE Err(map_event_err(ev.err))

\* The latest clock reading the method has made when it has done that.
read_until(op, game, pid, t1, t2, ts) ==
    CASE op = "sub_player_on" ->
            IF is_playing(game.shared.players[find(game.shared.players, pid)])
            THEN now ELSE t1
      [] op = "upsert_mvp" -> now
      [] op = "start_game" -> t1
      [] op = "end_game_period" -> last_read(ts, t2)
      [] op = "end_game" -> last_read(ts, t2)

\* repo.get_game and everything the method does to its copy of the game.
conc_load(th) ==
    /\ threads[th].pc = "idle"
    /\ \E op \in Ops, pid \in DOMAIN players, t1 \in Reads :
         \E t2 \in {t \in Times : t >= t1} :
           \E ts \in LoopReads(games[1].shared.players, t2) :
             LET got == Repo_get_game(games, 1)
                 c   == Changed(op, got.val, pid, t1, t2, ts)
             IN  IF c.ok
                 THEN /\ threads' = [threads EXCEPT ![th] =
                            [@ EXCEPT !.pc = "loaded", !.op = op, !.pid = pid,
                                      !.game = Some(c.val)]]
                      /\ now' = read_until(op, got.val, pid, t1, t2, ts)
                 ELSE /\ threads' = [threads EXCEPT ![th] =
                            [@ EXCEPT !.pc = "done", !.op = op, !.pid = pid,
                                      !.res = c.err]]
                      /\ now' = now
    /\ UNCHANGED <<players, games, calls, tally>>

\* repo.update_game(game.clone()); end_game goes on to fold the stats, every
\* other method returns Ok(game).
conc_persist(th) ==
    /\ threads[th].pc = "loaded"
    /\ LET upd == Repo_update_game(games, threads[th].game[1])
       IN  IF ~upd.ok
           THEN /\ games' = games
                /\ threads' = [threads EXCEPT ![th] =
                      [@ EXCEPT !.pc = "done", !.res = upd.err]]
           ELSE /\ games' = upd.store
                /\ threads' = [threads EXCEPT ![th] =
                      IF threads[th].op = "end_game"
                      THEN [@ EXCEPT !.pc = "folding", !.i = 1, !.writes = @ + 1]
                      ELSE [@ EXCEPT !.pc = "done", !.res = "Ok", !.writes = @ + 1]]
    /\ UNCHANGED <<players, now, calls, tally>>

\* One turn of `for p in &game.shared.players`, up to repo.get_player(&p.id)
\* and ep.add_stats: a player that cannot be read is skipped; after the last
\* player end_game returns Ok(game).
conc_fold_read(th) ==
    /\ threads[th].pc = "folding"
    /\ threads[th].ep = None
    /\ LET entries == threads[th].game[1].shared.players
           i       == threads[th].i
       IN  IF i > Len(entries)
           THEN threads' = [threads EXCEPT ![th] =
                   [@ EXCEPT !.pc = "done", !.res = "Ok"]]
           ELSE LET got == Repo_get_player(players, entries[i].id)
                IN  IF ~got.ok
                    THEN threads' = [threads EXCEPT ![th] = [@ EXCEPT !.i = i + 1]]
                    ELSE threads' = [threads EXCEPT ![th] =
                            [@ EXCEPT !.ep = Some(add_stats(got.val,
                                                            entries[i].play_count,
                                                            entries[i].play_duration))]]
    /\ UNCHANGED <<players, games, now, calls, tally>>

\* self.repo.update_player(ep)?
conc_fold_write(th) ==
    /\ threads[th].pc = "folding"
    /\ threads[th].ep # None
    /\ LET upd == Repo_update_player(players, threads[th].ep[1])
       IN  IF ~upd.ok
           THEN /\ players' = players
                /\ threads' = [threads EXCEPT ![th] =
                      [@ EXCEPT !.pc = "done", !.res = upd.err, !.ep = None]]
           ELSE /\ players' = upd.store
                /\ threads' = [threads EXCEPT ![th] =
                      [@ EXCEPT !.i = @ + 1, !.ep = None]]
    /\ UNCHANGED <<games, now, calls, tally>>

ConcNext ==
    \E th \in Threads :
        \/ conc_load(th)
        \/ conc_persist(th)
        \/ conc_fold_read(th)
        \/ conc_fold_write(th)

ConcSpec == ConcInit /\ [][ConcNext]_vars

(***************************************************************************)
(* A game under way with a roster of three.  The state is the one left by   *)
(* create_player three times, create_game and start_game, and possibly     *)
(* sub_player_on for the first roster player, all at clock reading 0; from *)
(* it players are deleted and subbed on and the game is ended.             *)
(***************************************************************************)
three_players(n0, n1, n2) ==
    Repo_create_player(two_players(n0, n1), n2, "a").store

\* The shirt numbers of the three: 3 is a number that is no player's id.
Shirts == {0, 1, 3}

\* MaxFold calls are made from this state on.
FoldInit ==
    /\ \E n0 \in Shirts, n1 \in Shirts, n2 \in Shirts :
           players = three_players(n0, n1, n2)
    /\ \E listing \in Repo_list_players(players), on_court \in BOOLEAN :
           games = (1 :> game_one(listing, TRUE, on_court))
    /\ now = 0
    /\ calls = MaxCalls - MaxFold
    /\ tally = NoTally
    /\ threads = NoThreads

FoldNext ==
    \/ delete_player
    \/ sub_player_on
    \/ end_game

FoldSpec == FoldInit /\ [][FoldNext]_vars

(***************************************************************************)
(* Concurrent requests on several games.  Two games are under way with the *)
(* same two players in their rosters; the handlers in flight create a game *)
(* or end one.  create_game is count_games, list_players and create_game   *)
(* of the repository, each under its own lock.                             *)
(***************************************************************************)
\* The second game that create_game made from the listing, started at 0,
\* with the first roster player subbed on at 0 or not.
game_two(listing, on_court) == [game_one(listing, TRUE, on_court) EXCEPT !.id = 2]

\* Players 0 and 1 carry their ids as numbers; games 1 and 2 are InProgress.
GamesInit ==
    /\ players = two_players(0, 1)
    /\ \E l1 \in Repo_list_players(players), l2 \in Repo_list_players(players),
          c1 \in BOOLEAN, c2 \in BOOLEAN :
           games = (1 :> game_one(l1, TRUE, c1)) @@ (2 :> game_two(l2, c2))
    /\ now = 0
    /\ calls = 0
    /\ tally = NoTally
    /\ threads = NoThreads

\* `let next = self.repo.count_games()? + 1;`
games_count(th) ==
    /\ threads[th].pc = "idle"
    /\ threads' = [threads EXCEPT ![th] =
          [@ EXCEPT !.pc = "counted", !.op = "create_game",
                    !.i = Repo_count_games(games) + 1]]
    /\ UNCHANGED <<players, games, now, calls, tally>>

\* `self.repo.list_players()?` with the stats reset, and Game::new.
games_list(th) ==
    /\ threads[th].pc = "counted"
    /\ \E listing \in Repo_list_players(players) :
           threads' = [threads EXCEPT ![th] =
              [@ EXCEPT !.pc = "listed",
                        !.game = Some(Game_new(threads[th].i,
                                    [i \in DOMAIN listing |-> reset_stats(listing[i])]))]]
    /\ UNCHANGED <<players, games, now, calls, tally>>

\* `self.repo.create_game(game.clone())?; Ok(game)`
games_create(th) ==
    /\ threads[th].pc = "listed"
    /\ LET r == Repo_create_game(games, threads[th].game[1])
       IN  IF ~r.ok
           THEN /\ games' = games
                /\ threads' = [threads EXCEPT ![th] =
                      [@ EXCEPT !.pc = "done", !.res = r.err]]
           ELSE /\ games' = r.store
                /\ threads' = [threads EXCEPT ![th] =
                      [@ EXCEPT !.pc = "done", !.res = "Ok", !.writes = @ + 1]]
    /\ UNCHANGED <<players, now, calls, tally>>

\* end_game up to its update_game: repo.get_game, the transition and the
\* sub-off loop on the handler's copy.
games_end_load(th) ==
    /\ threads[th].pc = "idle"
    /\ \E game_id \in DOMAIN games, t1 \in Reads :
         \E t2 \in {t \in Times : t >= t1} :
           \E ts \in LoopReads(games[game_id].shared.players, t2) :
             LET got == Repo_get_game(games, game_id)
                 c   == Changed("end_game", got.val, 0, t1, t2, ts)
             IN  IF c.ok
                 THEN /\ threads' = [threads EXCEPT ![th] =
                            [@ EXCEPT !.pc = "loaded", !.op = "end_game",
                                      !.game = Some(c.val)]]
                      /\ now' = last_read(ts, t2)
                 ELSE /\ threads' = [threads EXCEPT ![th] =
                            [@ EXCEPT !.pc = "done", !.op = "end_game",
                                      !.res = c.err]]
                      /\ now' = now
    /\ UNCHANGED <<players, games, calls, tally>>

GamesNext ==
    \E th \in Threads :
        \/ games_count(th)
        \/ games_list(th)
        \/ games_create(th)
        \/ games_end_load(th)
        \/ conc_persist(th)
        \/ conc_fold_read(th)
        \/ conc_fold_write(th)

GamesSpec == GamesInit /\ [][GamesNext]_vars

(***************************************************************************)
(* The play_count counter at its width.  play_count is a u32 and           *)
(* `self.play_count += n` is u32 addition: a sum beyond u32::MAX panics in *)
(* a build with overflow checks (the dev profile) and wraps around modulo  *)
(* 2^32 in a build without them (the release profile).  A u32 is written   *)
(* here as <<high, low>>, its two 16-bit halves.                           *)
(***************************************************************************)
Half == 65536

u32(n) == <<n \div Half, n % Half>>

U32_MAX == <<Half - 1, Half - 1>>

\* a <= b as u32 values.
u32_le(a, b) == a[1] < b[1] \/ (a[1] = b[1] /\ a[2] <= b[2])

\* The carry out of the low halves.
carry(a, b) == (a[2] + b[2]) \div Half

\* a + b does not fit into a u32.
overflows(a, b) == a[1] + b[1] + carry(a, b) >= Half

\* a + b modulo 2^32.
wrapping_add(a, b) == <<(a[1] + b[1] + carry(a, b)) % Half, (a[2] + b[2]) % Half>>

\* The builds: with overflow checks and without.
Profiles == {"dev", "release"}

\* `+=` on u32 in the given build: the sum, or a panic.
u32_add_assign(a, b, profile) ==
    IF overflows(a, b) /\ profile = "dev" THEN [panic |-> TRUE]
    ELSE [panic |-> FALSE, val |-> wrapping_add(a, b)]

\* Player::sub_on with play_count at its width.
sub_on_u32(p, t, profile) ==
    IF is_playing(p) THEN [panic |-> FALSE, val |-> p]
    ELSE LET sum == u32_add_assign(p.play_count, u32(1), profile)
         IN  IF sum.panic THEN sum
             ELSE [panic |-> FALSE,
                   val |-> [p EXCEPT !.play_count = sum.val,
                                     !.play_start_time = Some(t)]]

\* Player::add_stats with play_count at its width.
add_stats_u32(p, play_count, play_duration, profile) ==
    LET sum == u32_add_assign(p.play_count, play_count, profile)
    IN  IF sum.panic THEN sum
        ELSE [panic |-> FALSE,
              val |-> [p EXCEPT !.play_count = sum.val,
                                !.play_duration = @ + play_duration]]

\* The counts a record starts with and the counts of a game folded into it:
\* small ones and ones at the top of the range.
Counts == {u32(0), u32(1), <<Half - 1, Half - 2>>, U32_MAX}

\* One player record, stored under id 0.
CountInit ==
    /\ \E c \in Counts :
           players = (0 :> [Player_new(0, 0, "a") EXCEPT !.play_count = c])
    /\ games = <<>>
    /\ now = 0
    /\ calls = 0
    /\ tally = NoTally
    /\ threads = NoThreads

\* The record after a call that ended in `out`: a panic unwinds before the
\* record is written.
Written(out) ==
    /\ calls' = calls + 1
    /\ players' = IF out.panic THEN players ELSE (0 :> out.val)
    /\ UNCHANGED <<games, tally, threads>>

count_sub_on ==
    /\ calls < MaxCalls
    /\ \E t \in Reads, profile \in Profiles :
           /\ Written(sub_on_u32(players[0], t, profile))
           /\ now' = IF is_playing(players[0]) THEN now ELSE t

count_sub_off ==
    /\ calls < MaxCalls
    /\ \E t \in Reads :
           /\ Written([panic |-> FALSE, val |-> sub_off(players[0], t)])
           /\ now' = IF is_playing(players[0]) THEN t ELSE now

count_add_stats ==
    /\ calls < MaxCalls
    /\ \E c \in Counts, d \in Times, profile \in Profiles :
           /\ Written(add_stats_u32(players[0], c, d, profile))
           /\ now' = now

CountNext ==
    \/ count_sub_on
    \/ count_sub_off
    \/ count_add_stats

CountSpec == CountInit /\ [][CountNext]_vars

(***************************************************************************)
(* Vocabulary of the properties.                                           *)
(***************************************************************************)
Phases == {"NotStarted", "InProgress", "Paused", "Finished"}

\* The dispatch table of the design, section 4.2: the next phase, or "reject".
Dispatch(phase, event) ==
    CASE phase = "NotStarted" /\ event = "StartGame"   -> "InProgress"
      [] phase = "InProgress" /\ event = "EndPeriod"   -> "Paused"
      [] phase = "InProgress" /\ event = "EndGame"     -> "Finished"
      [] phase = "Paused"     /\ event = "StartPeriod" -> "InProgress"
      [] phase = "Paused"     /\ event = "EndGame"     -> "Finished"
      [] OTHER -> "reject"

kind(game) == game.state.kind

periods(game) == game.shared.periods

roster(game) == game.shared.players

is_open(period) == ~is_some(period.end_time)

last_period(game) == periods(game)[Len(periods(game))]

\* Pairs of successive clock readings a call can make in the current state.
ReadPairs == {tt \in Reads \X Times : tt[2] >= tt[1]}

\* The step takes game id from phase `from` to phase `to`.
Moves(id, from, to) ==
    /\ id \in DOMAIN games /\ id \in DOMAIN games'
    /\ kind(games[id]) = from
    /\ kind(games'[id]) = to

(***************************************************************************)
(* Properties of the event dispatcher and the phase state machine.         *)
(***************************************************************************)

\* C1: Game.on_event succeeds for exactly the five (phase, event) pairs of the
\* dispatch table and yields the table's next phase; each of the other eleven
\* pairs returns an error.  Checked for every stored game, every event and
\* every pair of clock readings the call can make.
C1_OnEventFollowsTable ==
    \A id \in DOMAIN games, event \in Events, tt \in ReadPairs :
        \A r \in {Game_on_event(games[id], event, tt[1], tt[2])},
           to \in {Dispatch(kind(games[id]), event)} :
            /\ r.ok <=> to # "reject"
            /\ r.ok => kind(r.val) = to
            /\ ~r.ok => r.err \in {"Invalid", "NoOp"}

\* A game back in progress after a pause: EndPeriod and EndGame are accepted
\* there, StartGame and StartPeriod are rejected.
C1_Witness ==
    \E id \in DOMAIN games :
        kind(games[id]) = "InProgress" /\ Len(periods(games[id])) = 2

\* The result the Service method of an event returns for game id in the
\* current state, with clock readings t1 <= t2 and sub_off readings ts.
Service_event(event, id, t1, t2, ts) ==
    CASE event = "StartGame"   -> Service_start_game(id, t1)
      [] event = "EndGame"     -> Service_end_game(id, t1, t2, ts)
      [] event = "StartPeriod" -> Service_start_game_period(id, t1)
      [] event = "EndPeriod"   -> Service_end_game_period(id, t1, ts)

\* C2: when the dispatch table rejects the event, the Service method
\* (start_game, end_game, start_game_period, end_game_period) returns an
\* error and leaves every stored game and every stored player record as it
\* was before the call.
C2_RejectionMutatesNothing ==
    \A id \in DOMAIN games, event \in Events :
        Dispatch(kind(games[id]), event) = "reject" =>
          \A tt \in ReadPairs :
            \A ts \in LoopReads(roster(games[id]), tt[2]) :
                \A r \in {Service_event(event, id, tt[1], tt[2], ts)} :
                    /\ r.res = "InvalidInput"
                    /\ r.games = games
                    /\ r.players = players

\* A paused game with a player on court: StartGame and EndPeriod are
\* rejected there, and a sub_off would have something to change.
C2_Witness ==
    \E id \in DOMAIN games :
        /\ kind(games[id]) = "Paused"
        /\ \E i \in DOMAIN roster(games[id]) : is_playing(roster(games[id])[i])
        /\ DOMAIN players # {}

\* Applying the events evs[i], evs[i+1], ... to game with Game.on_event, at
\* clock reading t, until one is rejected: the position of the rejected event
\* (0 when none is) and the phases passed through.
RECURSIVE run(_, _, _, _, _)
run(game, evs, i, t, seen) ==
    IF i > Len(evs) THEN [failed_at |-> 0, phases |-> seen]
    ELSE LET r == Game_on_event(game, evs[i], t, t)
         IN  IF ~r.ok THEN [failed_at |-> i, phases |-> seen]
             ELSE run(r.val, evs, i + 1, t, Append(seen, kind(r.val)))

\* Every event sequence of up to n more events, applied to game with
\* Game.on_event at clock reading t, goes as the dispatch table says: an event
\* the table accepts succeeds and leads to the table's phase, from where the
\* rest of the sequence goes on; an event the table rejects fails.
RECURSIVE follows_table(_, _, _)
follows_table(game, n, t) ==
    n > 0 =>
        \A event \in Events :
            LET r  == Game_on_event(game, event, t, t)
                to == Dispatch(kind(game), event)
            IN  /\ r.ok <=> to # "reject"
                /\ r.ok => kind(r.val) = to /\ follows_table(r.val, n - 1, t)

\* C3: from a NotStarted game the events StartGame, EndPeriod, StartPeriod,
\* EndGame succeed at every step and pass through InProgress, Paused,
\* InProgress, Finished; every other event sequence fails exactly at its
\* first event that the dispatch table rejects, and at no earlier event.  In
\* a run of the Service a stored game changes phase only along the table.
C3_RoundTrip ==
    /\ [](\A id \in DOMAIN games :
            kind(games[id]) = "NotStarted" =>
                /\ run(games[id],
                       <<"StartGame", "EndPeriod", "StartPeriod", "EndGame">>,
                       1, now, <<>>)
                     = [failed_at |-> 0,
                        phases |-> <<"InProgress", "Paused", "InProgress", "Finished">>]
                /\ follows_table(games[id], MaxSeq, now))
    /\ [][\A id \in DOMAIN games :
            /\ id \in DOMAIN games'
            /\ \/ kind(games'[id]) = kind(games[id])
               \/ \E event \in Events :
                     Dispatch(kind(games[id]), event) = kind(games'[id])]_vars

\* The end of the round trip: a finished game with two periods, the second
\* of them started by StartPeriod after the first was closed.
C3_Witness ==
    \E id \in DOMAIN games :
        /\ kind(games[id]) = "Finished"
        /\ Len(periods(games[id])) = 2
        /\ ~is_open(periods(games[id])[1])

\* C4: Finished is terminal: every one of the four events is rejected for a
\* Finished game, by Game.on_event and by the Service, and a game that is
\* Finished stays Finished in every later state.
C4_FinishedIsTerminal ==
    /\ [](\A id \in DOMAIN games :
            kind(games[id]) = "Finished" =>
                \A event \in Events, tt \in ReadPairs :
                    /\ ~Game_on_event(games[id], event, tt[1], tt[2]).ok
                    /\ \A ts \in LoopReads(roster(games[id]), tt[2]) :
                          Service_event(event, id, tt[1], tt[2], ts).res = "InvalidInput")
    /\ [][\A id \in DOMAIN games :
            kind(games[id]) = "Finished" =>
                id \in DOMAIN games' /\ kind(games'[id]) = "Finished"]_vars

\* A finished game whose only period was closed by EndGame itself.
C4_Witness ==
    \E id \in DOMAIN games :
        kind(games[id]) = "Finished" /\ Len(periods(games[id])) = 1

\* The step is an accepted EndPeriod on game id.
AcceptedEndPeriod(id) == Moves(id, "InProgress", "Paused")

\* The step is an accepted EndGame on game id.
AcceptedEndGame(id) ==
    Moves(id, "InProgress", "Finished") \/ Moves(id, "Paused", "Finished")

\* C5 as stated: immediately before an accepted EndPeriod or an accepted
\* EndGame the most recent period has end_time unset, and immediately after
\* it the most recent period has end_time set.
C5_Original ==
    [][\A id \in DOMAIN games :
          AcceptedEndPeriod(id) \/ AcceptedEndGame(id) =>
              /\ Len(periods(games[id])) > 0
              /\ is_open(last_period(games[id]))
              /\ Len(periods(games'[id])) > 0
              /\ ~is_open(last_period(games'[id]))]_vars

\* C5 amended: immediately after an accepted EndPeriod or EndGame the most
\* recent period has end_time set; immediately before an accepted EndPeriod,
\* or an EndGame accepted in the InProgress phase, it has end_time unset (an
\* EndGame accepted in the Paused phase finds it set already).
C5_PeriodClose ==
    [][\A id \in DOMAIN games :
          /\ AcceptedEndPeriod(id) \/ AcceptedEndGame(id) =>
                /\ Len(periods(games'[id])) > 0
                /\ ~is_open(last_period(games'[id]))
          /\ AcceptedEndPeriod(id) \/ Moves(id, "InProgress", "Finished") =>
                /\ Len(periods(games[id])) > 0
                /\ is_open(last_period(games[id]))]_vars

\* A game finished straight from InProgress: its only period was still open
\* when EndGame came.
C5_Witness ==
    \E id \in DOMAIN games :
        /\ kind(games[id]) = "Finished"
        /\ Len(periods(games[id])) = 1
        /\ ~is_open(last_period(games[id]))

\* C6: in every stored game at most one period has end_time unset, and if one
\* has, it is the last element of periods.
C6_OneOpenPeriod ==
    \A id \in DOMAIN games :
        \A i \in DOMAIN periods(games[id]) :
            is_open(periods(games[id])[i]) => i = Len(periods(games[id]))

\* A game in its second period: one closed period, then the open one.
C6_Witness ==
    \E id \in DOMAIN games :
        /\ Len(periods(games[id])) = 2
        /\ ~is_open(periods(games[id])[1])
        /\ is_open(periods(games[id])[2])

\* C7: EndGame only closes an open period: a period's end_time, once set, is
\* never changed by a later event (in particular by EndGame in the Paused
\* phase, where EndPeriod has closed the most recent period already).
C7_EndTimeIsFinal ==
    [][\A id \in DOMAIN games :
          \A i \in DOMAIN periods(games[id]) :
              ~is_open(periods(games[id])[i]) =>
                  /\ id \in DOMAIN games'
                  /\ i \in DOMAIN periods(games'[id])
                  /\ periods(games'[id])[i].end_time
                       = periods(games[id])[i].end_time]_vars

\* C8: StartGame appends exactly one open period whose start_time is the
\* start_time of the InProgress phase it enters; every later EndPeriod,
\* StartPeriod and EndGame keeps that game start_time, which therefore is the
\* start of the first period and not of a later one.
C8_StartTime ==
    /\ [](\A id \in DOMAIN games :
            kind(games[id]) # "NotStarted" =>
                /\ Len(periods(games[id])) > 0
                /\ games[id].state.start_time = periods(games[id])[1].start_time)
    /\ [][\A id \in DOMAIN games :
            /\ kind(games[id]) = "NotStarted" /\ kind(games'[id]) # "NotStarted" =>
                  /\ kind(games'[id]) = "InProgress"
                  /\ periods(games'[id])
                       = Append(periods(games[id]),
                                [start_time |-> games'[id].state.start_time,
                                 end_time |-> None])
            /\ kind(games[id]) # "NotStarted" =>
                  /\ kind(games'[id]) # "NotStarted"
                  /\ games'[id].state.start_time = games[id].state.start_time]_vars

\* A finished game whose second period started later than the game did.
C8_Witness ==
    \E id \in DOMAIN games :
        /\ kind(games[id]) = "Finished"
        /\ Len(periods(games[id])) = 2
        /\ periods(games[id])[2].start_time > games[id].state.start_time

\* C9: each transition uses one logical instant: after an EndGame that closes
\* the open period, the end_time of the Finished phase equals the end_time
\* that the same transition wrote to that period.
C9_OneInstant ==
    [][\A id \in DOMAIN games :
          Moves(id, "InProgress", "Finished") =>
              Some(games'[id].state.end_time) = last_period(games'[id]).end_time]_vars

(***************************************************************************)
(* Properties of player accounting.                                        *)
(***************************************************************************)

\* C10: sub_on is idempotent: on a player who is already playing it changes
\* nothing, so two consecutive sub_on calls leave the state of one, with
\* play_count increased by 1 and not 2; Service.sub_player_on for a roster
\* player who is on court leaves the stored game as it was.
C10_SubOnIdempotent ==
    \A id \in DOMAIN games, tt \in ReadPairs :
        \A i \in DOMAIN roster(games[id]) :
            LET p    == roster(games[id])[i]
                once == sub_on(p, tt[1])
            IN  /\ sub_on(once, tt[2]) = once
                /\ is_playing(p) => once = p
                /\ ~is_playing(p) =>
                      once = [p EXCEPT !.play_count = p.play_count + 1,
                                       !.play_start_time = Some(tt[1])]
                /\ is_playing(p) /\ find(roster(games[id]), p.id) = i =>
                      Service_sub_player_on(id, p.id, tt[1]).games = games

\* A roster player on court after one sub_on.
C10_Witness ==
    \E id \in DOMAIN games :
        \E i \in DOMAIN roster(games[id]) :
            /\ is_playing(roster(games[id])[i])
            /\ roster(games[id])[i].play_count = 1

\* C11: sub_off on a player who is not playing changes nothing; on a playing
\* player it adds (now - play_start_time) to play_duration, clears
\* play_start_time and leaves play_count (and id, name, number) as they were.
\* Service.sub_player_off stores the game with exactly that change.
C11_SubOff ==
    \A id \in DOMAIN games, t \in Reads :
        \A i \in DOMAIN roster(games[id]) :
            \A p \in {roster(games[id])[i]} : \A q \in {sub_off(p, t)} :
                /\ ~is_playing(p) => q = p
                /\ is_playing(p) =>
                      /\ q.play_duration = p.play_duration + (t - p.play_start_time[1])
                      /\ q.play_start_time = None
                      /\ q.play_count = p.play_count
                      /\ <<q.id, q.name, q.number>> = <<p.id, p.name, p.number>>
                /\ find(roster(games[id]), p.id) = i =>
                      Service_sub_player_off(id, p.id, t).games
                        = [games EXCEPT ![id].shared.players[i] = q]

\* A roster player back on the bench after playing for one tick.
C11_Witness ==
    \E id \in DOMAIN games :
        \E i \in DOMAIN roster(games[id]) :
            /\ ~is_playing(roster(games[id])[i])
            /\ roster(games[id])[i].play_count = 1
            /\ roster(games[id])[i].play_duration = 1

\* The roster player of the accounting test.
tested == roster(games[1])[1]

\* C12: for any sequence of sub_on and sub_off calls on one player, in any
\* order, with clock readings that never go backwards, play_duration never
\* decreases and always equals the sum of the lengths of all completed
\* (effective sub_on, following effective sub_off) intervals.
C12_DurationIsSumOfIntervals ==
    /\ [](tested.play_duration = tally.total)
    /\ [][roster(games'[1])[1].play_duration >= tested.play_duration]_vars

\* Two completed intervals, of lengths 1 and 2.
C12_Witness ==
    /\ tally.done = 2
    /\ tally.total = 3
    /\ tested.play_duration = 3

\* C13: for any sequence of sub_on and sub_off calls on a game-roster player
\* starting from reset stats, play_count equals the number of sub_on calls
\* that found the player off court, which is the number of completed play
\* intervals plus one if the player is currently playing.
C13_PlayCount ==
    /\ tested.play_count = tally.ons
    /\ tested.play_count = tally.done + (IF is_playing(tested) THEN 1 ELSE 0)

\* The player on court for the third time, two intervals completed.
C13_Witness ==
    /\ is_playing(tested)
    /\ tested.play_count = 3
    /\ tally.done = 2

(***************************************************************************)
(* Properties of the Service.                                              *)
(***************************************************************************)

\* The identity fields of a player record.
identity(p) == <<p.id, p.name, p.number>>

\* The step stores a new game: only create_game does.
StoresNewGame == DOMAIN games' # DOMAIN games

Duplicates(id) == {Game_new(id, listing) : listing \in Repo_list_players(players)}

\* C15: creating a game whose id is already in the store fails with Conflict
\* and persists nothing: the game already stored under that id is unchanged
\* and the number of stored games is unchanged.  Stated for both
\* repositories, the in-memory map and the SQLite table.
C15_DuplicateIsConflict ==
    \A id \in DOMAIN games :
        \A game \in Duplicates(id) :
            /\ Repo_create_game(games, game) = Err("Conflict")
            /\ Sqlite_create_game(games, game) = Err("Conflict")

\* What C16 asks of the roster `after` that a successful end_game or
\* end_game_period stored, `before` being the roster it found and ts[i] the
\* clock reading of the i-th player's sub_off.
all_subbed_off(before, after, ts) ==
    /\ Len(after) = Len(before)
    /\ \A i \in DOMAIN after :
          /\ ~is_playing(after[i])
          /\ after[i].play_start_time = None
          /\ after[i].play_count = before[i].play_count
          /\ is_playing(before[i]) =>
                after[i].play_duration
                  = before[i].play_duration + (ts[i] - before[i].play_start_time[1])
          /\ ~is_playing(before[i]) =>
                after[i].play_duration = before[i].play_duration

\* C16: after Service.end_game or Service.end_game_period returns success, no
\* player in the stored game's roster is playing (every play_start_time is
\* unset), and each player who was playing had the elapsed time added to
\* play_duration.  Checked for the calls made in every reachable state.
C16_EveryoneOff ==
    [](\A id \in DOMAIN games, tt \in ReadPairs :
          \A ts \in LoopReads(roster(games[id]), tt[2]) :
              \A p \in {Service_end_game_period(id, tt[2], ts)},
                 e \in {Service_end_game(id, tt[1], tt[2], ts)} :
                  /\ p.res = "Ok" =>
                        /\ p.val[1] = p.games[id]
                        /\ all_subbed_off(roster(games[id]), roster(p.games[id]), ts)
                  /\ e.res = "Ok" =>
                        /\ e.val[1] = e.games[id]
                        /\ all_subbed_off(roster(games[id]), roster(e.games[id]), ts))

\* A paused game whose roster player was on court from 0 until the period
\* ended at 1.
C16_Witness ==
    \E id \in DOMAIN games :
        /\ kind(games[id]) = "Paused"
        /\ now = 1
        /\ last_period(games[id]).end_time = Some(1)
        /\ \E i \in DOMAIN roster(games[id]) :
              /\ ~is_playing(roster(games[id])[i])
              /\ roster(games[id])[i].play_count = 1
              /\ roster(games[id])[i].play_duration = 1

\* The play_count and play_duration that the roster entries from position i
\* on hold for the player id k: <<count, duration>>.
RECURSIVE game_stats(_, _, _)
game_stats(entries, k, i) ==
    IF i > Len(entries) THEN <<0, 0>>
    ELSE LET rest == game_stats(entries, k, i + 1)
         IN  IF entries[i].id = k
             THEN <<rest[1] + entries[i].play_count,
                    rest[2] + entries[i].play_duration>>
             ELSE rest

\* C17: after a successful Service.end_game, for every roster player whose
\* persistent record exists in the store, that record's play_count and
\* play_duration have grown by exactly the player's final per-game play_count
\* and play_duration, and no other persistent player record has changed.
\* Checked for the call made in every reachable state.
C17_StatsFolded ==
    \A id \in DOMAIN games, tt \in ReadPairs :
        \A ts \in LoopReads(roster(games[id]), tt[2]) :
            \A r \in {Service_end_game(id, tt[1], tt[2], ts)} :
                r.res = "Ok" =>
                    /\ DOMAIN r.players = DOMAIN players
                    /\ \A k \in DOMAIN players :
                          LET s == game_stats(roster(r.games[id]), k, 1)
                          IN  r.players[k] = add_stats(players[k], s[1], s[2])

\* The player id is the id of an entry of the roster of the stored game.
in_roster(game_id, player_id) ==
    /\ game_id \in DOMAIN games
    /\ \E i \in DOMAIN roster(games[game_id]) :
          roster(games[game_id])[i].id = player_id

\* C18: Service.sub_player_on and Service.sub_player_off return NotFound when
\* the game id is not stored or the player id is not in that game's roster,
\* and in that case no stored game or player is modified.  Checked for the
\* calls made in every reachable state.
C18_SubNotFound ==
    [](\A game_id \in GameIds, player_id \in PlayerIds :
          ~in_roster(game_id, player_id) =>
            \A t \in Reads :
              \A on \in {Service_sub_player_on(game_id, player_id, t)},
                 off \in {Service_sub_player_off(game_id, player_id, t)} :
                  /\ on.res = "NotFound"
                  /\ on.games = games
                  /\ on.players = players
                  /\ off.res = "NotFound"
                  /\ off.games = games
                  /\ off.players = players)

\* A stored game with a player on court, and a stored player who joined the
\* store after the game was created and so is not in its roster.
C18_Witness ==
    \E id \in DOMAIN games, k \in DOMAIN players :
        /\ ~in_roster(id, players[k].id)
        /\ \E i \in DOMAIN roster(games[id]) : is_playing(roster(games[id])[i])

\* C19: Service.upsert_mvp with a player id that is not in the game's roster
\* returns NotFound and the stored game's mvp keeps its previous value; with
\* a player id in the roster it sets mvp to that id and changes nothing else
\* in the game (nor in any other game or player record).  Checked for the
\* call made in every reachable state.
C19_UpsertMvp ==
    [](\A id \in DOMAIN games, player_id \in PlayerIds :
          \A r \in {Service_upsert_mvp(id, player_id)} :
              /\ ~in_roster(id, player_id) =>
                    /\ r.res = "NotFound"
                    /\ r.games[id].shared.mvp = games[id].shared.mvp
                    /\ r.games = games
              /\ in_roster(id, player_id) =>
                    /\ r.res = "Ok"
                    /\ r.games[id].shared.mvp = Some(player_id)
                    /\ r.games = [games EXCEPT ![id].shared.mvp = Some(player_id)]
                    /\ r.val[1] = r.games[id]
              /\ r.players = players)

\* A game that has an mvp, and a stored player who is not in its roster, so
\* that naming this player must leave the mvp there is.
C19_Witness ==
    \E id \in DOMAIN games, k \in DOMAIN players :
        /\ is_some(games[id].shared.mvp)
        /\ ~in_roster(id, players[k].id)

\* C20: in every stored game reachable through any sequence of Service
\* operations (create_player, delete_player and update_player on the
\* persistent roster included), mvp is either unset or equal to the id of a
\* player present in that game's roster.
C20_MvpInRoster ==
    \A id \in DOMAIN games :
        \/ games[id].shared.mvp = None
        \/ in_roster(id, games[id].shared.mvp[1])

\* A game whose mvp was deleted from the player store after being named: the
\* roster snapshot still holds the player.
C20_Witness ==
    \E id \in DOMAIN games :
        /\ is_some(games[id].shared.mvp)
        /\ games[id].shared.mvp[1] \notin DOMAIN players
        /\ \A k \in DOMAIN players : players[k].id # games[id].shared.mvp[1]

\* The handler has returned, and returned Ok.
returned_ok(th) == threads[th].pc = "done" /\ threads[th].res = "Ok"

\* The entry of the stored game 1 for the player a handler was called with.
entry_of(th) == roster(games[1])[find(roster(games[1]), threads[th].pid)]

\* C21: each load -> change -> persist operation on one game appears atomic:
\* when sub_player_on for one player runs concurrently with sub_player_on for
\* another player or with upsert_mvp on the same game and both return Ok, the
\* stored game afterwards shows the effect of both; no update is lost.
C21_NoLostUpdate ==
    \A a \in Threads : \A b \in Threads \ {a} :
        ( /\ returned_ok(a) /\ returned_ok(b)
          /\ threads[a].op = "sub_player_on"
          /\ \/ threads[b].op = "upsert_mvp"
             \/ threads[b].op = "sub_player_on" /\ threads[b].pid # threads[a].pid )
        => /\ is_playing(entry_of(a))
           /\ threads[b].op = "sub_player_on" => is_playing(entry_of(b))
           /\ threads[b].op = "upsert_mvp" => games[1].shared.mvp = Some(threads[b].pid)

\* C22: of two concurrent Service.end_game calls, or two concurrent
\* Service.start_game calls, on the same game at most one returns Ok (the
\* other is rejected as an invalid transition).
C22_AtMostOneSucceeds ==
    \A a \in Threads : \A b \in Threads \ {a} :
        ( /\ threads[a].op = threads[b].op
          /\ threads[a].op \in {"end_game", "start_game"}
          /\ returned_ok(a) /\ threads[b].pc = "done" )
        => threads[b].res = "InvalidInput"

EndOps == {"end_game_period", "end_game"}

\* C29 as stated: end_game and end_game_period store the game twice, first
\* with the new phase and then again with the subbed-off roster.
C29_Original ==
    \A th \in Threads :
        returned_ok(th) /\ threads[th].op \in EndOps => threads[th].writes = 2

\* C29, amended: end_game and end_game_period store the game exactly once,
\* after the transition and after the sub-off loop: the one update_game
\* writes the new phase together with a roster in which nobody is playing.
C29_OneWrite ==
    /\ [](\A th \in Threads :
            returned_ok(th) /\ threads[th].op \in EndOps => threads[th].writes = 1)
    /\ [][\A th \in Threads :
            ( /\ threads[th].op \in EndOps
              /\ threads[th].pc = "loaded"
              /\ threads'[th].pc # "loaded"
              /\ games' # games )
            => /\ games'[1] = threads[th].game[1]
               /\ kind(games'[1]) \in {"Paused", "Finished"}
               /\ \A i \in DOMAIN roster(games'[1]) : ~is_playing(roster(games'[1])[i])]_vars

\* An end_game_period has returned Ok after its one write, and that write
\* subbed off the player who was on court.
C29_Witness ==
    \E th \in Threads :
        /\ returned_ok(th)
        /\ threads[th].op = "end_game_period"
        /\ threads[th].writes = 1
        /\ kind(games[1]) = "Paused"
        /\ roster(games[1])[1].play_count = 1
        /\ ~is_playing(roster(games[1])[1])

\* The roster entries before position k.
before(entries, k) == SubSeq(entries, 1, k - 1)

\* The store in which exactly the roster players before position k have had
\* their game stats added to their records.
folded_before(store, entries, k) ==
    [id \in DOMAIN store |->
        LET s == game_stats(before(entries, k), id, 1)
        IN  add_stats(store[id], s[1], s[2])]

\* C23: when a storage write fails while Service.end_game folds the stats of
\* the k-th roster player, end_game returns that error, the game stays stored
\* as Finished with everyone subbed off, the records of the players folded
\* before k have their stats added, and the records of the players from k on
\* (and every other record) are as they were.  Checked for the call made in
\* every reachable state: once the transition is accepted the only write
\* that can fail is an update_player of the fold.
C23_PartialFold ==
    \A tt \in ReadPairs :
        \A ts \in LoopReads(roster(games[1]), tt[2]) :
            \A r \in {Service_end_game(1, tt[1], tt[2], ts)} :
                ( /\ Game_on_event(games[1], "EndGame", tt[1], tt[2]).ok
                  /\ r.res # "Ok" )
                => /\ r.res = "NotFound"
                   /\ kind(r.games[1]) = "Finished"
                   /\ \A i \in DOMAIN roster(r.games[1]) :
                          ~is_playing(roster(r.games[1])[i])
                   /\ \E k \in DOMAIN roster(r.games[1]) :
                          r.players = folded_before(players, roster(r.games[1]), k)

\* Some roster player of game 1 has no record in the store any more.
roster_player_deleted ==
    \E i \in DOMAIN roster(games[1]) : roster(games[1])[i].id \notin DOMAIN players

\* C30: when Service.end_game meets a roster player whose persistent record
\* can no longer be read, it skips that player, still folds the remaining
\* roster players and still returns Ok.  Checked for the call made in every
\* reachable state in which a roster player has been deleted.
C30_SkipsUnreadable ==
    roster_player_deleted =>
        \A tt \in ReadPairs :
            \A ts \in LoopReads(roster(games[1]), tt[2]) :
                \A r \in {Service_end_game(1, tt[1], tt[2], ts)} :
                    Game_on_event(games[1], "EndGame", tt[1], tt[2]).ok
                    => /\ r.res = "Ok"
                       /\ r.players = folded_before(players, roster(r.games[1]),
                                                    Len(roster(r.games[1])) + 1)

\* C24: Repo.update_player(p) replaces exactly the stored record whose id is
\* p.id and leaves every other record as it was, and returns NotFound,
\* storing nothing, exactly when no record with id p.id is stored, whatever
\* p.number is.  Checked for every id and number on every reachable store.
C24_UpdatePlayerById ==
    \A id \in PlayerIds, number \in Numbers :
        \A p \in {IF id \in DOMAIN players
                  THEN [players[id] EXCEPT !.number = number]
                  ELSE Player_new(id, number, "a")} :
            Repo_update_player(players, p) =
                IF id \in DOMAIN players
                THEN [ok |-> TRUE, store |-> [players EXCEPT ![id] = p]]
                ELSE Err("NotFound")

\* The ids a caller may pass that are not stored.
AbsentPlayerIds == (0..MaxCalls) \ DOMAIN players

AbsentGameIds == (0..MaxCalls) \ DOMAIN games

\* C25: get_player and get_game on an id that is not stored fail with
\* NotFound (HTTP 404) and change nothing; update_game and delete_game on an
\* id that is not stored fail with NotFound and neither insert nor remove an
\* entry.  Checked for the calls made in every reachable state.
C25_AbsentIsNotFound ==
    /\ \A id \in AbsentPlayerIds :
          \A r \in {Service_get_player(id)} :
              /\ r = Ret("NotFound", None, games, players, now)
              /\ status(r) = 404
    /\ \A id \in AbsentGameIds :
          /\ \A r \in {Service_get_game(id)} :
                /\ r = Ret("NotFound", None, games, players, now)
                /\ status(r) = 404
          /\ \A roster_ \in {<<>>} \cup {roster(games[g]) : g \in DOMAIN games} :
                Repo_update_game(games, Game_new(id, roster_)) = Err("NotFound")
          /\ Repo_delete_game(games, id) = Err("NotFound")

\* Games and players are stored, and ids that are not stored are asked for.
C25_Witness ==
    /\ DOMAIN games # {}
    /\ DOMAIN players # {}
    /\ Service_get_player(Cardinality(DOMAIN players)).res = "NotFound"
    /\ Repo_delete_game(games, 0) = Err("NotFound")
    /\ Repo_delete_game(games, 1).ok

\* C26: a player that create_player returns has the given name and number,
\* play_count 0, play_duration 0 and is not playing, and get_player returns
\* that same player for the id that create_player returned.  Checked for the
\* calls made in every reachable state.
C26_CreatedPlayer ==
    \A number \in Numbers, name \in Names :
        \A r \in {Service_create_player(number, name)} :
            r.res = "Ok" =>
                /\ r.val[1].name = name
                /\ r.val[1].number = number
                /\ r.val[1].play_count = 0
                /\ r.val[1].play_duration = 0
                /\ ~is_playing(r.val[1])
                /\ Repo_get_player(r.players, r.val[1].id) = Ok(r.val[1])
                /\ r.games = games

\* Two players have been created, the second with number 1, and each is
\* stored under its id as it was created.
C26_Witness ==
    /\ DOMAIN players = {0, 1}
    /\ players[1] = Player_new(1, 1, "a")
    /\ players[0].id = 0

\* The list `after` is `before` with at most its last element changed, or
\* with one element appended.
last_or_appended(before_, after) ==
    \/ /\ Len(after) = Len(before_)
       /\ \A i \in 1..(Len(before_) - 1) : after[i] = before_[i]
    \/ /\ Len(after) = Len(before_) + 1
       /\ \A i \in 1..Len(before_) : after[i] = before_[i]

\* C27: an accepted event rebuilds the game with the same id, the same
\* roster and the same mvp, and changes at most the last element of periods
\* or appends one element.  Checked for every event and every pair of clock
\* readings on every stored game of every reachable state.
C27_OnEventFrame ==
    \A id \in DOMAIN games, event \in Events, tt \in ReadPairs :
        \A r \in {Game_on_event(games[id], event, tt[1], tt[2])} :
            r.ok =>
                /\ r.val.id = games[id].id
                /\ roster(r.val) = roster(games[id])
                /\ r.val.shared.mvp = games[id].shared.mvp
                /\ last_or_appended(periods(games[id]), periods(r.val))

\* A game under way has a roster and an mvp, and EndPeriod is accepted on it.
C27_Witness ==
    \E id \in DOMAIN games :
        /\ kind(games[id]) = "InProgress"
        /\ is_some(games[id].shared.mvp)
        /\ Len(roster(games[id])) > 0
        /\ Game_on_event(games[id], "EndPeriod", now, now).ok

\* C28: every rejected event is one error kind: the dispatcher returns
\* Invalid, never NoOp, for each rejected pair, and the Service method
\* returns InvalidInput for it.  Checked for every event on every stored
\* game of every reachable state.
C28_OneErrorKind ==
    \A id \in DOMAIN games, event \in Events :
        \A r \in {Game_on_event(games[id], event, now, now)} :
            ~r.ok =>
                /\ r = Err("Invalid")
                /\ Service_event(event, id, now, now,
                                 [i \in DOMAIN roster(games[id]) |-> now]).res
                     = "InvalidInput"

\* A stored game is Finished: every event is rejected on it, and end_game
\* on it returns InvalidInput.
C28_Witness ==
    \E id \in DOMAIN games :
        /\ kind(games[id]) = "Finished"
        /\ \A event \in Events : ~Game_on_event(games[id], event, now, now).ok
        /\ Service_end_game(id, now, now,
                            [i \in DOMAIN roster(games[id]) |-> now]).res = "InvalidInput"

\* Every period of the game has its end_time set.
all_closed(game) ==
    \A i \in DOMAIN periods(game) : ~is_open(periods(game)[i])

\* C31: in every stored game the phase and the periods agree: NotStarted has
\* no period; InProgress has at least one and its last period is open;
\* Paused and Finished have at least one and every period is closed.  So
\* end_period and end_game, accepted in InProgress and Paused only, always
\* find a period to finish.
C31_PhaseAndPeriods ==
    \A id \in DOMAIN games :
        /\ kind(games[id]) = "NotStarted" => Len(periods(games[id])) = 0
        /\ kind(games[id]) = "InProgress" =>
              /\ Len(periods(games[id])) > 0
              /\ is_open(last_period(games[id]))
        /\ kind(games[id]) \in {"Paused", "Finished"} =>
              /\ Len(periods(games[id])) > 0
              /\ all_closed(games[id])

\* A game is under way in its second period: the first is closed, the last
\* is open.
C31_Witness ==
    \E id \in DOMAIN games :
        /\ kind(games[id]) = "InProgress"
        /\ Len(periods(games[id])) = 2
        /\ ~is_open(periods(games[id])[1])
        /\ is_open(last_period(games[id]))

\* C32: with clock readings that never go backwards, in every stored game
\* each closed period has start_time <= end_time, each period starts no
\* earlier than the period before it ended, the start_time of the phase is
\* the start_time of the first period, and in Finished the end_time of the
\* phase is >= the end_time of every period.
C32_TimestampsOrdered ==
    \A id \in DOMAIN games :
        /\ \A i \in DOMAIN periods(games[id]) :
              /\ ~is_open(periods(games[id])[i]) =>
                    periods(games[id])[i].start_time <= periods(games[id])[i].end_time[1]
              /\ (i > 1 /\ ~is_open(periods(games[id])[i - 1])) =>
                    periods(games[id])[i - 1].end_time[1] <= periods(games[id])[i].start_time
        /\ Len(periods(games[id])) > 0 =>
              games[id].state.start_time = periods(games[id])[1].start_time
        /\ kind(games[id]) = "Finished" =>
              \A i \in DOMAIN periods(games[id]) :
                  /\ ~is_open(periods(games[id])[i])
                  /\ periods(games[id])[i].end_time[1] <= games[id].state.end_time

\* A game of two periods has finished, later than it started.
C32_Witness ==
    \E id \in DOMAIN games :
        /\ kind(games[id]) = "Finished"
        /\ Len(periods(games[id])) = 2
        /\ games[id].state.start_time < games[id].state.end_time
        /\ periods(games[id])[1].end_time[1] <= periods(games[id])[2].start_time

\* C33: in every stored game a roster player is on court only while the
\* phase is InProgress; in NotStarted, Paused and Finished no roster player
\* is playing.
C33_OnCourtOnlyInProgress ==
    \A id \in DOMAIN games :
        kind(games[id]) # "InProgress" =>
            \A i \in DOMAIN roster(games[id]) : ~is_playing(roster(games[id])[i])

\* The play_count and play_duration of each roster entry, in roster order.
roster_stats(game) ==
    [i \in DOMAIN roster(game) |->
        <<roster(game)[i].play_count, roster(game)[i].play_duration>>]

\* C34: once a stored game is Finished no Service operation changes its
\* periods, the timestamps of its phase, or the play_count or play_duration
\* of any roster player.
C34_FinishedIsFrozen ==
    [][\A id \in DOMAIN games :
          kind(games[id]) = "Finished" =>
              /\ id \in DOMAIN games'
              /\ games'[id].state = games[id].state
              /\ periods(games'[id]) = periods(games[id])
              /\ roster_stats(games'[id]) = roster_stats(games[id])]_vars

\* The handler has finished a create_game.
created(th) == threads[th].op = "create_game" /\ threads[th].pc = "done"

C36_BothGamesFolded ==
    \A a \in Threads : \A b \in Threads \ {a} :
        ( /\ returned_ok(a) /\ returned_ok(b)
          /\ threads[a].op = "end_game" /\ threads[b].op = "end_game"
          /\ threads[a].game[1].id # threads[b].game[1].id )
        => \A k \in DOMAIN players :
              LET sa == game_stats(roster(threads[a].game[1]), k, 1)
                  sb == game_stats(roster(threads[b].game[1]), k, 1)
              IN  /\ players[k].play_count = sa[1] + sb[1]
                  /\ players[k].play_duration = sa[2] + sb[2]

\* C37: in the in-memory store create_player always succeeds, gives the new
\* player an id that no stored player has, and leaves every stored record
\* as it was.  Checked for the call made in every reachable state, which
\* includes every state that a sequence of create_player and delete_player
\* calls leads to.
C37_CreateAfterDelete ==
    \A number \in Numbers, name \in Names :
        \A r \in {Service_create_player(number, name)} :
            /\ r.res = "Ok"
            /\ r.val[1].id \notin DOMAIN players
            /\ \A k \in DOMAIN players : r.players[k] = players[k]

\* The stored games `after` are the games `before` with at most the first
\* roster entry of player_id in game_id changed, and that entry still is the
\* same player.
only_entry_changed(before_, after, game_id, player_id) ==
    /\ DOMAIN after = DOMAIN before_
    /\ \A g \in DOMAIN before_ \ {game_id} : after[g] = before_[g]
    /\ after[game_id].id = before_[game_id].id
    /\ after[game_id].state = before_[game_id].state
    /\ periods(after[game_id]) = periods(before_[game_id])
    /\ after[game_id].shared.mvp = before_[game_id].shared.mvp
    /\ Len(roster(after[game_id])) = Len(roster(before_[game_id]))
    /\ \A i \in DOMAIN roster(before_[game_id]) :
          /\ identity(roster(after[game_id])[i]) = identity(roster(before_[game_id])[i])
          /\ i # find(roster(before_[game_id]), player_id) =>
                roster(after[game_id])[i] = roster(before_[game_id])[i]

\* The stored games `after` are the games `before` with at most the mvp of
\* game_id changed.
only_mvp_changed(before_, after, game_id) ==
    /\ DOMAIN after = DOMAIN before_
    /\ \A g \in DOMAIN before_ :
          after[g] = [before_[g] EXCEPT !.shared.mvp =
                         IF g = game_id THEN after[g].shared.mvp ELSE @]

\* C38: a game's roster is an independent snapshot.  create_player,
\* update_player and delete_player leave every stored game as it was;
\* sub_player_on, sub_player_off and upsert_mvp change only the entry of the
\* player they are called with (or the mvp) in the game they are called
\* with, and leave its phase, its periods, its other roster entries, every
\* other game and every persistent player record as they were.  Checked for
\* the calls made in every reachable state.
C38_RosterSnapshot ==
    [](/\ \A number \in Numbers, name \in Names :
            /\ Service_create_player(number, name).games = games
            /\ \A id \in DOMAIN players :
                  Service_update_player([players[id] EXCEPT !.name = name,
                                                            !.number = number]).games
                    = games
       /\ \A id \in PlayerIds : Service_delete_player(id).games = games
       /\ \A game_id \in DOMAIN games, player_id \in PlayerIds :
            /\ \A t \in Reads :
                  \A on \in {Service_sub_player_on(game_id, player_id, t)},
                     off \in {Service_sub_player_off(game_id, player_id, t)} :
                      /\ on.players = players
                      /\ off.players = players
                      /\ only_entry_changed(games, on.games, game_id, player_id)
                      /\ only_entry_changed(games, off.games, game_id, player_id)
            /\ \A r \in {Service_upsert_mvp(game_id, player_id)} :
                  /\ r.players = players
                  /\ only_mvp_changed(games, r.games, game_id))

\* A game has two roster entries, one of them on court and one of a player
\* who has since been deleted from the store.
C38_Witness ==
    \E id \in DOMAIN games :
        /\ Len(roster(games[id])) = 2
        /\ \E i \in DOMAIN roster(games[id]) : is_playing(roster(games[id])[i])
        /\ \E i \in DOMAIN roster(games[id]) : roster(games[id])[i].id \notin DOMAIN players

\* C39: play_count never decreases under any sequence of sub_on and
\* add_stats calls, also when the u32 counter is at or near its maximum: no
\* call wraps the count around to a smaller value.
C39_CountNeverDecreases ==
    [][u32_le(players[0].play_count, players'[0].play_count)]_vars

====
